---- MODULE Spec2Model ----
(***************************************************************************)
(* Acid looper (acid_looper_curses.py): the patch store (PatchLoader), the *)
(* tempo controller and the playback engine (AcidLooperCurses.run and      *)
(* play_pattern_loop), together with the parts of their environment they   *)
(* observe: the patches directory, the clock and the curses input queue.   *)
(***************************************************************************)
EXTENDS Integers, Sequences, FiniteSets, TLC

(***************************************************************************)
(* Bounds of the model.                                                    *)
(***************************************************************************)
\* how many events the environment produces after the program has started:
\* clock ticks, operations on the patches directory and key events
MaxOps == 2

\* how many files the largest patches directory holds (more than there are
\* slot keys)
MaxPatches == 28

(***************************************************************************)
(* Program constants.                                                      *)
(***************************************************************************)
\* PATCH_KEYS = "qwertyuiopasdfghjklzxcvbnm"
PATCH_KEYS ==
  << "q", "w", "e", "r", "t", "y", "u", "i", "o", "p", "a", "s", "d",
     "f", "g", "h", "j", "k", "l", "z", "x", "c", "v", "b", "n", "m" >>

\* AcidPlayer.bass_channel and AcidPlayer.rhythm_channel
bass_channel == 1
rhythm_channel == 9

\* DrumPatternGenerator.DRUMS
DRUMS ==
  [ kick |-> 36, snare |-> 38, closed_hh |-> 42, open_hh |-> 46,
    tom_high |-> 50, tom_mid |-> 47, tom_low |-> 45, clap |-> 39 ]

\* TempoController.__init__
initial_bpm == 90
min_bpm == 60
max_bpm == 180
tempo_step == 1

\* run(): time.time() - self.last_patch_scan >= 1.0 (the clock counts seconds)
ScanInterval == 1

\* getch() results: ESC, the curses special keys, and "no key pending"
KEY_ESC == "ESC"
KEY_RESIZE == "KEY_RESIZE"
KEY_UP == "KEY_UP"
KEY_DOWN == "KEY_DOWN"
NO_KEY == "-1"

\* Python's None, and an optional value holding x
None == << >>
Some(x) == << x >>

(***************************************************************************)
(* The patches directory: file stems and the documents a file may hold.    *)
(***************************************************************************)
\* the stems of the *.json files that are written and rewritten while the
\* program runs, in lexicographic order
NameOrder == << "a", "b" >>
Names == { NameOrder[i] : i \in 1..Len(NameOrder) }

\* f"patch_{i:02d}": the stems of a large patches directory
PatchName(i) == "patch_" \o (IF i < 10 THEN "0" ELSE "") \o ToString(i)

\* every stem, in lexicographic order (what sorted() yields)
IdOrder == NameOrder \o [ i \in 1..MaxPatches |-> PatchName(i - 1) ]

\* A document is what one file holds.  wellformed: json.load() succeeds.
\* has: the keys present ("steps" stands for drum_pattern.steps).
\* mistyped: the fields whose JSON value has another type than the patch format
\* gives them (a string as pitch, a number as name); the parser copies such a
\* value as it copies any other, so the value itself is not modelled.
Docs ==
  << \* 1: two bass steps, one drum step (drums shorter than bass)
     [ wellformed |-> TRUE, mistyped |-> {},
       has |-> {"name", "description", "bass_pattern", "drum_pattern", "steps"},
       name |-> "Alpha", description |-> "first",
       bass_pattern |-> << <<36, 100, "C">>, <<48, 110, "C2">> >>,
       steps |-> << << <<36, 120>>, <<42, 75>> >> >> ],
     \* 2: two bass steps, three drum steps (drums longer), no description
     [ wellformed |-> TRUE, mistyped |-> {},
       has |-> {"name", "bass_pattern", "drum_pattern", "steps"},
       name |-> "Beta", description |-> "",
       bass_pattern |-> << <<38, 90, "intro_1">>, <<41, 95, "main_1">> >>,
       steps |-> << << <<38, 105>> >>, << >>, << <<46, 80>> >> >> ],
     \* 3: the empty patch of the tests (sample_patch_empty)
     [ wellformed |-> TRUE, mistyped |-> {},
       has |-> {"name", "description", "bass_pattern", "drum_pattern", "steps"},
       name |-> "Test Empty", description |-> "Empty test patch",
       bass_pattern |-> << >>,
       steps |-> << >> ],
     \* 4: not JSON at all ('bad json')
     [ wellformed |-> FALSE, mistyped |-> {},
       has |-> {},
       name |-> "", description |-> "",
       bass_pattern |-> << >>,
       steps |-> << >> ],
     \* 5: {"name": "Incomplete"}: bass_pattern is missing
     [ wellformed |-> TRUE, mistyped |-> {},
       has |-> {"name"},
       name |-> "Incomplete", description |-> "",
       bass_pattern |-> << >>,
       steps |-> << >> ],
     \* 6: a bass step with two elements, and no name
     [ wellformed |-> TRUE, mistyped |-> {},
       has |-> {"bass_pattern"},
       name |-> "", description |-> "",
       bass_pattern |-> << <<36, 100>> >>,
       steps |-> << >> ],
     \* 7: complete, but the pitch of its bass step is a string and its name
     \* a number
     [ wellformed |-> TRUE, mistyped |-> {"pitch", "name"},
       has |-> {"name", "description", "bass_pattern", "drum_pattern", "steps"},
       name |-> "42", description |-> "types",
       bass_pattern |-> << <<60, 100, "C3">> >>,
       steps |-> << << <<36, 120>> >> >> ],
     \* 8: name and bass_pattern only: no description and no drum_pattern
     [ wellformed |-> TRUE, mistyped |-> {},
       has |-> {"name", "bass_pattern"},
       name |-> "Bass Only", description |-> "",
       bass_pattern |-> << <<40, 100, "E">>, <<43, 90, "G">>, <<45, 80, "A">> >>,
       steps |-> << >> ],
     \* 9: a drum_pattern object without steps
     [ wellformed |-> TRUE, mistyped |-> {},
       has |-> {"name", "description", "bass_pattern", "drum_pattern"},
       name |-> "No Steps", description |-> "drum_pattern is {}",
       bass_pattern |-> << <<36, 100, "C">> >>,
       steps |-> << >> ],
     \* 10: as many drum steps as bass steps; the first drum step hits the
     \* kick twice
     [ wellformed |-> TRUE, mistyped |-> {},
       has |-> {"name", "description", "bass_pattern", "drum_pattern", "steps"},
       name |-> "Double", description |-> "double kick",
       bass_pattern |-> << <<36, 100, "C">>, <<39, 90, "Eb">> >>,
       steps |-> << << <<36, 120>>, <<42, 75>>, <<36, 100>> >>, << <<38, 110>> >> >> ] >>

DocIds == 1..Len(Docs)

\* the documents the files hold while the looper runs: the three valid ones
\* and one that does not parse
LooperDocs == { 1, 2, 3, 4 }

\* the documents of the tests of the store: valid ones and the three ways a
\* file fails to parse
StoreDocs == { 1, 2, 3, 4, 5, 6 }

\* the documents of a directory that is played and left alone: drums shorter
\* than, longer than and as long as the bass, and no drums at all
PlayDocs == { 1, 2, 8, 10 }

(***************************************************************************)
(* PatchLoader: parsing one file (the try block of scan_patches).          *)
(***************************************************************************)
\* f"drums_{len(drum_pattern)}"
DrumLabel(n) == << "drums_", n >>

\* [(hit[0], hit[1]) for hit in step_data]
DrumHits(step_data) == [ i \in 1..Len(step_data) |-> << step_data[i][1], step_data[i][2] >> ]

\* a parser that leaves out the steps without a drum hit
ParseDrumsSkipEmpty(doc) ==
  IF "drum_pattern" \in doc.has /\ "steps" \in doc.has
    THEN LET hit == SelectSeq(doc.steps, LAMBDA step_data : step_data # << >>)
         IN  [ i \in 1..Len(hit) |-> << DrumHits(hit[i]), DrumLabel(i - 1) >> ]
    ELSE << >>

\* the drum_pattern list built by the loop over data['drum_pattern']['steps']
ParseDrums(doc) ==
  IF "drum_pattern" \in doc.has /\ "steps" \in doc.has
    THEN [ i \in 1..Len(doc.steps) |-> << DrumHits(doc.steps[i]), DrumLabel(i - 1) >> ]
    ELSE << >>

\* TRUE iff the try block raises: json.load fails, a key is missing, a bass
\* step does not unpack into three values, or a drum hit has no hit[1]
ParseRaises(doc) ==
  \/ ~doc.wellformed
  \/ "bass_pattern" \notin doc.has
  \/ \E i \in 1..Len(doc.bass_pattern) : Len(doc.bass_pattern[i]) # 3
  \/ /\ "drum_pattern" \in doc.has /\ "steps" \in doc.has
     /\ \E i \in 1..Len(doc.steps) : \E j \in 1..Len(doc.steps[i]) : Len(doc.steps[i][j]) < 2
  \/ "name" \notin doc.has

\* the dict stored in self.patches[json_file.stem]
ParsePatch(stem, doc) ==
  [ name |-> doc.name,
    description |-> IF "description" \in doc.has THEN doc.description ELSE "",
    bass_pattern |-> doc.bass_pattern,
    drum_pattern |-> ParseDrums(doc),
    file |-> stem ]

\* sorted(S) for a set S of stems
Sorted(S) == SelectSeq(IdOrder, LAMBDA n : n \in S)

Min(a, b) == IF a <= b THEN a ELSE b
Max(a, b) == IF a >= b THEN a ELSE b

\* the keys of the dict m in alphabetical order, as sorted(m) yields them
AlphabeticalKeys(m) ==
  SelectSeq(<< "a", "b", "c", "d", "e", "f", "g", "h", "i", "j", "k", "l", "m",
               "n", "o", "p", "q", "r", "s", "t", "u", "v", "w", "x", "y", "z" >>,
            LAMBDA k : k \in DOMAIN m)

\* get_patch_by_key
get_patch_by_key(p, m, key) ==
  IF key \in DOMAIN m THEN Some(p[m[key]]) ELSE None

\* a get_all_patches that goes through sorted(self.patch_keys_map)
get_all_patches_sorted(p, m) ==
  LET assigned == AlphabeticalKeys(m)
  IN  [ i \in 1..Len(assigned) |-> << assigned[i], p[m[assigned[i]]] >> ]

\* get_all_patches: (key, patch) pairs in PATCH_KEYS order
get_all_patches(p, m) ==
  LET assigned == SelectSeq(PATCH_KEYS, LAMBDA k : k \in DOMAIN m)
  IN  [ i \in 1..Len(assigned) |-> << assigned[i], p[m[assigned[i]]] >> ]

\* get_first_patch
get_first_patch(p, m) ==
  LET all == get_all_patches(p, m)
  IN  IF Len(all) > 0 THEN Some(all[1]) ELSE None

(***************************************************************************)
(* TempoController.                                                        *)
(***************************************************************************)
\* an increase() without the upper limit
increase_unlimited(b) == b + tempo_step

\* increase(): the new bpm
increase(b) == Min(b + tempo_step, max_bpm)

\* decrease(): the new bpm
decrease(b) == Max(b - tempo_step, min_bpm)

\* a controller that computes the step duration once, from the tempo it is
\* made with by default, and returns that value ever after
get_step_duration_cached(b) == << 60000, initial_bpm * 4 >>

\* get_step_duration_ms(): (60000 / bpm) / 4 as the fraction <<num, den>>
get_step_duration_ms(b) == << 60000, b * 4 >>

\* x < y for two fractions with positive denominators
FracLess(x, y) == x[1] * y[2] < y[1] * x[2]

(***************************************************************************)
(* State.                                                                  *)
(***************************************************************************)
VARIABLES
  \* the environment: clock, patches directory, operator
  now,               \* time.time(), in seconds
  dir_exists,        \* the patches directory exists
  files,             \* stem -> [doc, mtime] for the *.json files present
  env_ops,           \* events the environment has produced so far
  inputq,            \* key events pending for getch(), oldest first
  \* PatchLoader
  patches,           \* self.patches: stem -> patch dict
  patch_keys_map,    \* self.patch_keys_map: key -> stem
  last_scan_time,    \* self.last_scan_time
  \* the frame of scan_patches
  scan_pc,           \* "idle", "begin", "glob", "stat", "read", "finish", "returned", "raised"
  scan_files,        \* sorted(self.patches_dir.glob("*.json")), as stems
  scan_idx,          \* position of json_file in scan_files
  current_files,     \* the local current_files
  changes_detected,  \* the local changes_detected
  scan_ret,          \* the value returned
  scan_pre,          \* self.patches when the call started
  scan_called,       \* the time of the call, None before the first call
  scan_failed,       \* stems whose try block raised during this call
  scan_parsed,       \* stems whose try block stored a patch during this call
  \* AcidLooperCurses
  pc,                \* position in run()
  current_patch,     \* run()'s local current_patch
  current_patch_key, \* self.current_patch_key
  next_patch,        \* self.next_patch
  next_patch_key,    \* self.next_patch_key
  running,           \* self.running
  last_patch_scan,   \* self.last_patch_scan
  needs_full_redraw, \* self.needs_full_redraw
  bpm,               \* self.tempo.bpm
  \* the frame of play_pattern_loop
  patch,             \* the argument patch
  step_idx,          \* the loop variable step_idx
  \* what the player has been sent
  pass_current,      \* run()'s current_patch when the pass was started
  pass_log,          \* the events of each step played in this pass
  pass_requests,     \* the (key, patch) pairs queued during this pass, in order
  passes,            \* whether play_pattern_loop was ever called
  \* what happened to the patches directory
  dir_changes,       \* files added, removed or changed in content since the
                     \* store last saw the directory: 0, 1, or 2 for more or
                     \* for a directory that was written during the last scan
  scan_quiet,        \* the directory was left alone since scan_patches was called
  \* a client of the store or of the tempo controller
  last_call          \* its last call since the last scan: [op, arg, ret]

fsv    == << now, dir_exists, files, env_ops >>
inpv   == << inputq >>
storev == << patches, patch_keys_map, last_scan_time >>
scanv  == << scan_pc, scan_files, scan_idx, current_files, changes_detected,
             scan_ret, scan_pre, scan_called, scan_failed, scan_parsed >>
engv   == << pc, current_patch, current_patch_key, next_patch, next_patch_key,
             running, last_patch_scan, needs_full_redraw, bpm >>
passv  == << patch, step_idx >>
obsv   == << pass_current, pass_log, pass_requests, passes >>
histv  == << dir_changes, scan_quiet >>
callv  == << last_call >>
vars   == << fsv, inpv, storev, scanv, engv, passv, obsv, histv, callv >>

\* the empty dict
EmptyDict == [ x \in {} |-> x ]

\* d with d[k] = v added or replaced
DictPut(d, k, v) == [ x \in DOMAIN d \cup {k} |-> IF x = k THEN v ELSE d[x] ]

\* d without the keys in ks
DictDrop(d, ks) == [ x \in DOMAIN d \ ks |-> d[x] ]

\* the directories the program may find when it starts: any set of files out
\* of D, all written before the program started, or no directory at all
InitialDir(D) ==
  /\ env_ops = 0
  /\ \/ /\ dir_exists = TRUE
        /\ \E S \in SUBSET Names : files \in [ S -> [ doc : D, mtime : {0} ] ]
     \/ /\ dir_exists = FALSE
        /\ files = EmptyDict

\* PatchLoader.__init__ and AcidLooperCurses.__init__, with the tempo
\* controller made by TempoController(initial_bpm=b)
InitLooper(b) ==
  /\ now = 1
  /\ inputq = << >>
  /\ patches = EmptyDict
  /\ patch_keys_map = EmptyDict
  /\ last_scan_time = 0
  /\ scan_pc = "idle"
  /\ scan_files = << >>
  /\ scan_idx = 0
  /\ current_files = {}
  /\ changes_detected = FALSE
  /\ scan_ret = FALSE
  /\ scan_pre = EmptyDict
  /\ scan_called = None
  /\ scan_failed = {}
  /\ scan_parsed = {}
  /\ pc = "run"
  /\ current_patch = None
  /\ current_patch_key = None
  /\ next_patch = None
  /\ next_patch_key = None
  /\ running = TRUE
  /\ last_patch_scan = now
  /\ needs_full_redraw = FALSE
  /\ bpm = b
  /\ patch = None
  /\ step_idx = 0
  /\ pass_current = None
  /\ pass_log = << >>
  /\ pass_requests = << >>
  /\ passes = FALSE
  /\ dir_changes = Min(Cardinality(DOMAIN files), 2)
  /\ scan_quiet = TRUE
  /\ last_call = None

\* line 252: self.tempo = TempoController(initial_bpm=90)
InitProgram == InitLooper(initial_bpm)

Init == InitialDir(LooperDocs) /\ InitProgram

(***************************************************************************)
(* The environment.                                                        *)
(***************************************************************************)
\* the clock advances by one second
Tick ==
  /\ env_ops < MaxOps
  /\ now' = now + 1
  /\ env_ops' = env_ops + 1
  /\ UNCHANGED << dir_exists, files, inpv, storev, scanv, engv, passv, obsv,
                  histv, callv >>

\* a file is created or rewritten; its modification time is the current time
WriteFile(D) ==
  /\ env_ops < MaxOps
  /\ dir_exists
  /\ \E n \in Names, d \in D :
       /\ files' = DictPut(files, n, [ doc |-> d, mtime |-> now ])
       /\ dir_changes' = IF n \in DOMAIN files /\ files[n].doc = d
                           THEN dir_changes ELSE Min(dir_changes + 1, 2)
  /\ scan_quiet' = FALSE
  /\ env_ops' = env_ops + 1
  /\ UNCHANGED << now, dir_exists, inpv, storev, scanv, engv, passv, obsv, callv >>

\* a file is removed
DeleteFile ==
  /\ env_ops < MaxOps
  /\ \E n \in DOMAIN files : files' = DictDrop(files, {n})
  /\ dir_changes' = Min(dir_changes + 1, 2)
  /\ scan_quiet' = FALSE
  /\ env_ops' = env_ops + 1
  /\ UNCHANGED << now, dir_exists, inpv, storev, scanv, engv, passv, obsv, callv >>

\* the whole patches directory is removed
RemoveDir ==
  /\ env_ops < MaxOps
  /\ dir_exists
  /\ dir_exists' = FALSE
  /\ files' = EmptyDict
  /\ dir_changes' = Min(dir_changes + Cardinality(DOMAIN files), 2)
  /\ scan_quiet' = FALSE
  /\ env_ops' = env_ops + 1
  /\ UNCHANGED << now, inpv, storev, scanv, engv, passv, obsv, callv >>

\* the patches directory is created again
MakeDir ==
  /\ env_ops < MaxOps
  /\ ~dir_exists
  /\ dir_exists' = TRUE
  /\ scan_quiet' = FALSE
  /\ env_ops' = env_ops + 1
  /\ UNCHANGED << now, files, inpv, storev, scanv, engv, passv, obsv,
                  dir_changes, callv >>

\* the characters the operator types besides ESC and the arrows: the first two
\* slot keys, an upper-case slot key and a character that is no slot key
Chars == { "q", "w", "W", "1" }
Keys == { KEY_ESC, KEY_RESIZE, KEY_UP, KEY_DOWN } \cup Chars

\* the operator presses a key, or the terminal is resized
KeyPress ==
  /\ env_ops < MaxOps
  /\ \E k \in Keys : inputq' = Append(inputq, k)
  /\ env_ops' = env_ops + 1
  /\ UNCHANGED << now, dir_exists, files, storev, scanv, engv, passv, obsv,
                  histv, callv >>

(***************************************************************************)
(* PatchLoader.scan_patches, one action per blocking call on the directory. *)
(***************************************************************************)
\* dir_changes when scan_patches returns: the store has seen the directory as
\* it is, unless the directory was written while the scan ran
SeenAfterScan == IF scan_quiet THEN 0 ELSE 2

\* the caller's call self.patch_loader.scan_patches(): a fresh frame
ScanFrame ==
  /\ scan_pc' = "begin"
  /\ scan_files' = << >>
  /\ scan_idx' = 0
  /\ current_files' = {}
  /\ changes_detected' = FALSE
  /\ scan_pre' = patches
  /\ scan_called' = Some(now)
  /\ scan_failed' = {}
  /\ scan_parsed' = {}
  /\ scan_quiet' = TRUE
  /\ UNCHANGED scan_ret

\* where the for loop goes after the file at scan_idx
AfterFile == IF scan_idx < Len(scan_files) THEN "stat" ELSE "finish"

\* lines 147-151: if not self.patches_dir.exists(): return False
ScanBegin ==
  /\ scan_pc = "begin"
  /\ IF dir_exists
       THEN /\ scan_pc' = "glob"
            /\ UNCHANGED scan_ret
       ELSE /\ scan_pc' = "returned"
            /\ scan_ret' = FALSE
  /\ dir_changes' = IF dir_exists THEN dir_changes ELSE SeenAfterScan
  /\ UNCHANGED << scan_files, scan_idx, current_files, changes_detected,
                  scan_pre, scan_called, scan_failed, scan_parsed >>
  /\ UNCHANGED << fsv, inpv, storev, engv, passv, obsv, scan_quiet, callv >>

\* line 153: sorted(self.patches_dir.glob("*.json"))
ScanGlob ==
  /\ scan_pc = "glob"
  /\ scan_files' = Sorted(DOMAIN files)
  /\ scan_idx' = 1
  /\ scan_pc' = IF DOMAIN files = {} THEN "finish" ELSE "stat"
  /\ UNCHANGED << current_files, changes_detected, scan_ret, scan_pre, scan_called,
                  scan_failed, scan_parsed >>
  /\ UNCHANGED << fsv, inpv, storev, engv, passv, obsv, histv, callv >>

\* line 158: the file is parsed when it is new or modified
NeedsParse(stem, mtime) == stem \notin DOMAIN patches \/ mtime > last_scan_time

\* lines 154-158: current_files.add, json_file.stat() and the test of mtime;
\* stat() is outside the try block and raises when the file is gone
ScanStat ==
  /\ scan_pc = "stat"
  /\ LET stem == scan_files[scan_idx] IN
       /\ current_files' = current_files \cup {stem}
       /\ IF stem \notin DOMAIN files
            THEN /\ scan_pc' = "raised"
                 /\ UNCHANGED scan_idx
            ELSE IF NeedsParse(stem, files[stem].mtime)
                   THEN /\ scan_pc' = "read"
                        /\ UNCHANGED scan_idx
                   ELSE /\ scan_pc' = AfterFile
                        /\ scan_idx' = scan_idx + 1
  /\ UNCHANGED << scan_files, changes_detected, scan_ret, scan_pre, scan_called,
                  scan_failed, scan_parsed >>
  /\ UNCHANGED << fsv, inpv, storev, engv, passv, obsv, histv, callv >>

\* TRUE iff the try block of lines 159-183 raises for the file stem: open()
\* fails because the file is gone, or the document does not parse
TryRaises(stem) == stem \notin DOMAIN files \/ ParseRaises(Docs[files[stem].doc])

\* a scan that drops the stored patch of a file it cannot parse
StoredAfterTryDropping(stem) ==
  IF TryRaises(stem)
    THEN DictDrop(patches, {stem})
    ELSE DictPut(patches, stem, ParsePatch(stem, Docs[files[stem].doc]))

\* self.patches after the try block for the file stem: the assignment of
\* lines 174-180 is the last statement that can raise, so a failure stores nothing
StoredAfterTry(stem) ==
  IF TryRaises(stem)
    THEN patches
    ELSE DictPut(patches, stem, ParsePatch(stem, Docs[files[stem].doc]))

\* lines 159-183: the try block; a failure is swallowed by except Exception
ScanRead ==
  /\ scan_pc = "read"
  /\ LET stem == scan_files[scan_idx] IN
       /\ patches' = StoredAfterTry(stem)
       /\ IF TryRaises(stem)
            THEN /\ scan_failed' = scan_failed \cup {stem}
                 /\ UNCHANGED << changes_detected, scan_parsed >>
            ELSE /\ changes_detected' = TRUE
                 /\ scan_parsed' = scan_parsed \cup {stem}
                 /\ UNCHANGED scan_failed
  /\ scan_pc' = AfterFile
  /\ scan_idx' = scan_idx + 1
  /\ UNCHANGED << scan_files, current_files, scan_ret, scan_pre, scan_called >>
  /\ UNCHANGED << patch_keys_map, last_scan_time >>
  /\ UNCHANGED << fsv, inpv, engv, passv, obsv, histv, callv >>

\* line 186: deleted = set(self.patches.keys()) - current_files
Deleted == DOMAIN patches \ current_files

\* the titles of the documents in lexicographic order
TitleOrder ==
  << "", "42", "Alpha", "Bass Only", "Beta", "Double", "Incomplete", "No Steps",
     "Test Empty" >>

\* TRUE iff id x comes before id y when the dict p is sorted by the patches'
\* names, ids deciding between equal names
BeforeByName(p, x, y) ==
  LET tx == CHOOSE i \in 1..Len(TitleOrder) : TitleOrder[i] = p[x].name
      ty == CHOOSE i \in 1..Len(TitleOrder) : TitleOrder[i] = p[y].name
      ix == CHOOSE i \in 1..Len(IdOrder) : IdOrder[i] = x
      iy == CHOOSE i \in 1..Len(IdOrder) : IdOrder[i] = y
  IN  tx < ty \/ (tx = ty /\ ix < iy)

\* an _update_key_mapping that sorts the patches by their name field
KeyMappingByName(p) ==
  LET n == Min(Cardinality(DOMAIN p), Len(PATCH_KEYS))
  IN  [ key \in { PATCH_KEYS[i] : i \in 1..n } |->
          CHOOSE x \in DOMAIN p :
            PATCH_KEYS[Cardinality({ y \in DOMAIN p : BeforeByName(p, y, x) }) + 1] = key ]

\* an _update_key_mapping that does not start from an empty map: the keys of
\* patches that are gone stay mapped
KeyMappingKeepStale(p) ==
  LET sorted_patches == Sorted(DOMAIN p)
      n == Min(Len(sorted_patches), Len(PATCH_KEYS))
      fresh == { PATCH_KEYS[i] : i \in 1..n }
  IN  [ key \in fresh \cup DOMAIN patch_keys_map |->
          IF key \in fresh
            THEN sorted_patches[CHOOSE i \in 1..n : PATCH_KEYS[i] = key]
            ELSE patch_keys_map[key] ]

\* _update_key_mapping: the new patch_keys_map for the dict p
KeyMapping(p) ==
  LET sorted_patches == Sorted(DOMAIN p)
      n == Min(Len(sorted_patches), Len(PATCH_KEYS))
  IN  [ key \in { PATCH_KEYS[i] : i \in 1..n } |->
          sorted_patches[CHOOSE i \in 1..n : PATCH_KEYS[i] = key] ]

\* a scan that forgets to report the patches it removed
ChangesAfterRemovalUnreported == changes_detected

\* lines 187-189: changes_detected after the loop over the deleted patches
ChangesAfterRemoval == changes_detected \/ Deleted # {}

\* lines 185-193: remove deleted patches, advance the watermark, remap the keys
ScanFinish ==
  /\ scan_pc = "finish"
  /\ patches' = DictDrop(patches, Deleted)
  /\ last_scan_time' = now
  /\ patch_keys_map' = KeyMapping(patches')
  /\ scan_ret' = ChangesAfterRemoval
  /\ changes_detected' = ChangesAfterRemoval
  /\ scan_pc' = "returned"
  /\ dir_changes' = SeenAfterScan
  /\ UNCHANGED << scan_files, scan_idx, current_files, scan_pre, scan_called,
                  scan_failed, scan_parsed >>
  /\ UNCHANGED << fsv, inpv, engv, passv, obsv, scan_quiet, callv >>

(***************************************************************************)
(* AcidLooperCurses.play_pattern_loop: one action per step of the pattern.  *)
(***************************************************************************)
\* chr(key).lower()
Lower(c) == IF c = "W" THEN "w" ELSE c

PatchKeySet == { PATCH_KEYS[i] : i \in 1..Len(PATCH_KEYS) }

\* a looper for which a character that is no assigned slot key asks for the
\* first patch
RequestedPatchOrFirst(key) ==
  IF key \in Chars
    THEN IF Lower(key) \in DOMAIN patch_keys_map
           THEN Some(patches[patch_keys_map[Lower(key)]])
           ELSE IF get_first_patch(patches, patch_keys_map) = None
                  THEN None
                  ELSE Some(get_first_patch(patches, patch_keys_map)[1][2])
    ELSE None

\* lines 505-509: the patch a key asks for, None for a key that is no
\* character, no slot key, or a slot key without a patch
RequestedPatch(key) ==
  IF key \in Chars /\ Lower(key) \in PatchKeySet
    THEN get_patch_by_key(patches, patch_keys_map, Lower(key))
    ELSE None

\* a looper that starts the drum pattern over when it is shorter than the bass
DrumHitsWrapping(p, i) ==
  IF Len(p.drum_pattern) > 0
    THEN p.drum_pattern[(i % Len(p.drum_pattern)) + 1][1]
    ELSE << >>

\* lines 516-519: the drum hits of step i (0-based) of patch p
DrumHitsAt(p, i) ==
  IF i < Len(p.drum_pattern) THEN p.drum_pattern[i + 1][1] ELSE << >>

\* a looper that triggers the bass note before the drums
StepEventsBassFirst(p, i, b) ==
  LET note == p.bass_pattern[i + 1][1]
      velocity == p.bass_pattern[i + 1][2]
      hits == DrumHitsAt(p, i)
  IN  << << "on", bass_channel, note, velocity >> >>
      \o [ h \in 1..Len(hits) |-> << "on", rhythm_channel, hits[h][1], hits[h][2] >> ]
      \o << << "sleep", get_step_duration_ms(b) >> >>
      \o << << "off", bass_channel, note >> >>
      \o [ h \in 1..Len(hits) |-> << "off", rhythm_channel, hits[h][1] >> ]
      \o << << "sleep", << 10, 1 >> >> >>

\* lines 524-541: what the player is sent for step i of patch p at tempo b:
\* drum note-ons, bass note-on, the hold, bass note-off, drum note-offs, the gap
StepEvents(p, i, b) ==
  LET note == p.bass_pattern[i + 1][1]
      velocity == p.bass_pattern[i + 1][2]
      hits == DrumHitsAt(p, i)
  IN  [ h \in 1..Len(hits) |-> << "on", rhythm_channel, hits[h][1], hits[h][2] >> ]
      \o << << "on", bass_channel, note, velocity >> >>
      \o << << "sleep", get_step_duration_ms(b) >> >>
      \o << << "off", bass_channel, note >> >>
      \o [ h \in 1..Len(hits) |-> << "off", rhythm_channel, hits[h][1] >> ]
      \o << << "sleep", << 10, 1 >> >> >>

\* line 491: key = self.stdscr.getch(), non-blocking
PolledKey == IF inputq = << >> THEN NO_KEY ELSE Head(inputq)

\* a looper that throws away whatever is pending besides the key it polled
InputAfterFlush == << >>

\* the input queue after the getch() of line 491: the oldest key is taken
InputAfterPoll == IF inputq = << >> THEN inputq ELSE Tail(inputq)

\* a looper that goes back to the initial tempo when a patch is queued
TempoAfterOrReset(key) ==
  IF key = KEY_UP THEN increase(bpm)
  ELSE IF key = KEY_DOWN THEN decrease(bpm)
  ELSE IF RequestedPatch(key) # None THEN initial_bpm
  ELSE bpm

\* lines 499-504: the tempo after the key
TempoAfter(key) ==
  IF key = KEY_UP THEN increase(bpm)
  ELSE IF key = KEY_DOWN THEN decrease(bpm)
  ELSE bpm

\* a looper that works the hold out before it polls the keyboard
HoldBpmBeforePoll(key) == bpm

\* line 532: the bpm get_step_duration_ms() reads for the hold, after the
\* key polled in this iteration was handled
HoldBpm(key) == TempoAfter(key)

\* a looper that switches to the queued patch at once, in the middle of the pass
PlayedPatchImmediate ==
  IF next_patch # None /\ step_idx < Len(next_patch[1].bass_pattern)
    THEN next_patch[1]
    ELSE patch[1]

\* the patch whose step is played at this iteration: the argument patch
PlayedPatch == patch[1]

\* a looper that quits on the letter q and not on ESC
IsQuitOnQ(key) == key = "q"

\* line 492: if key == 27
IsQuit(key) == key = KEY_ESC

\* a looper that keeps the first request of a pass and drops the later ones
QueuedPatchKeepFirst(req) == IF next_patch # None THEN next_patch ELSE req

\* lines 509-512: self.next_patch after a key that asks for the patch req
QueuedPatchAfter(req) == IF req # None THEN req ELSE next_patch

\* a looper that keeps the key of the first request of a pass
QueuedKeyKeepFirst(key, req) ==
  IF req # None /\ next_patch_key = None THEN Some(Lower(key)) ELSE next_patch_key

\* lines 509-512: self.next_patch_key after the key, which asks for the patch req
QueuedKeyAfter(key, req) == IF req # None THEN Some(Lower(key)) ELSE next_patch_key

\* a looper that looks at the polled key only after it has triggered the
\* notes of the step
LogAfterQuitLate ==
  Append(pass_log,
         SubSeq(StepEvents(PlayedPatch, step_idx, bpm), 1,
                Len(DrumHitsAt(PlayedPatch, step_idx)) + 1))

\* lines 492-494: what the player has been sent when the iteration returns
\* False: nothing of this step
LogAfterQuit == pass_log

\* lines 483-541: one iteration of the for loop
PassStep ==
  /\ pc = "pass"
  /\ step_idx < Len(patch[1].bass_pattern)
  /\ LET key == PolledKey
         req == RequestedPatch(key)
     IN
       /\ inputq' = InputAfterPoll
       /\ IF IsQuit(key)
            THEN \* lines 492-494: return False, and run() breaks out of its loop
                 /\ running' = FALSE
                 /\ pc' = "stopped"
                 /\ needs_full_redraw' = FALSE
                 /\ pass_log' = LogAfterQuit
                 /\ UNCHANGED << bpm, next_patch, next_patch_key, step_idx,
                                 pass_requests >>
            ELSE /\ needs_full_redraw' = (key = KEY_RESIZE \/ req # None)
                 /\ bpm' = TempoAfter(key)
                 /\ next_patch' = QueuedPatchAfter(req)
                 /\ next_patch_key' = QueuedKeyAfter(key, req)
                 /\ pass_requests' = IF req # None
                                       THEN Append(pass_requests, << Lower(key), req[1] >>)
                                       ELSE pass_requests
                 /\ pass_log' = Append(pass_log, StepEvents(PlayedPatch, step_idx, HoldBpm(key)))
                 /\ step_idx' = step_idx + 1
                 /\ UNCHANGED << running, pc >>
  /\ UNCHANGED << current_patch, current_patch_key, last_patch_scan, patch >>
  /\ UNCHANGED << pass_current, passes >>
  /\ UNCHANGED << fsv, storev, scanv, histv, callv >>

(***************************************************************************)
(* AcidLooperCurses.run.                                                   *)
(***************************************************************************)
\* the call self.play_pattern_loop(current_patch, current_patch) with cp
CallPass(cp) ==
  /\ pc' = "pass"
  /\ patch' = cp
  /\ step_idx' = 0
  /\ pass_current' = cp
  /\ pass_log' = << >>
  /\ pass_requests' = << >>
  /\ passes' = TRUE

\* line 548: the initial patch scan
RunStart ==
  /\ pc = "run"
  /\ pc' = "startup_scan"
  /\ ScanFrame
  /\ UNCHANGED << current_patch, current_patch_key, next_patch, next_patch_key,
                  running, last_patch_scan, needs_full_redraw, bpm >>
  /\ UNCHANGED << fsv, inpv, storev, passv, obsv, dir_changes, callv >>

\* a run() without the test for an empty store
FirstMissingNever(first_patch) == FALSE

\* line 551: if not first_patch
FirstMissing(first_patch) == first_patch = None

\* lines 550-558: get_first_patch, the error report with its getch() (which
\* does not block either) or the first draw_ui; unpacking None at line 557
\* would raise TypeError
RunFirst ==
  /\ pc = "startup_scan"
  /\ scan_pc = "returned"
  /\ scan_pc' = "idle"
  /\ LET first_patch == get_first_patch(patches, patch_keys_map) IN
       IF FirstMissing(first_patch)
         THEN /\ pc' = "no_patches"
              /\ inputq' = InputAfterPoll
              /\ UNCHANGED << current_patch, current_patch_key >>
         ELSE IF first_patch = None
           THEN /\ pc' = "crashed"
                /\ UNCHANGED << inputq, current_patch, current_patch_key >>
           ELSE /\ pc' = "loop"
                /\ current_patch_key' = Some(first_patch[1][1])
                /\ current_patch' = Some(first_patch[1][2])
                /\ UNCHANGED inputq
  /\ UNCHANGED << scan_files, scan_idx, current_files, changes_detected,
                  scan_ret, scan_pre, scan_called, scan_failed, scan_parsed >>
  /\ UNCHANGED << next_patch, next_patch_key, running, last_patch_scan,
                  needs_full_redraw, bpm >>
  /\ UNCHANGED << fsv, storev, passv, obsv, histv, callv >>

\* line 563: time.time() - self.last_patch_scan >= 1.0
ScanDue == now - last_patch_scan >= ScanInterval

\* lines 561-569 when no scan is due: straight into the next pass
LoopPlay ==
  /\ pc = "loop"
  /\ running
  /\ ~ScanDue
  /\ CallPass(current_patch)
  /\ UNCHANGED << current_patch, current_patch_key, next_patch, next_patch_key,
                  running, last_patch_scan, needs_full_redraw, bpm >>
  /\ UNCHANGED << fsv, inpv, storev, scanv, histv, callv >>

\* a looper that also rescans in the middle of a pass
ScanPointAnywhere == pc \in { "loop", "pass" }

\* where run() tests whether a scan is due: at the top of its while loop
ScanPoint == pc = "loop"

\* lines 561-564 when a scan is due: the call of scan_patches
LoopScan ==
  /\ ScanPoint
  /\ running
  /\ ScanDue
  /\ pc' = "loop_scan"
  /\ ScanFrame
  /\ UNCHANGED << current_patch, current_patch_key, next_patch, next_patch_key,
                  running, last_patch_scan, needs_full_redraw, bpm >>
  /\ UNCHANGED << fsv, inpv, storev, passv, obsv, dir_changes, callv >>

\* a run() that falls back to the first patch of the store when the scan has
\* removed the patch it plays
PatchAfterScanFallback ==
  IF current_patch[1].file \in DOMAIN patches
       \/ get_first_patch(patches, patch_keys_map) = None
    THEN current_patch
    ELSE Some(get_first_patch(patches, patch_keys_map)[1][2])

\* the patch run() passes to play_pattern_loop after a scan: its own local
PatchAfterScan == current_patch

\* lines 564-569 after the scan returned: redraw flag, last_patch_scan, next pass
LoopScanned ==
  /\ pc = "loop_scan"
  /\ scan_pc = "returned"
  /\ scan_pc' = "idle"
  /\ needs_full_redraw' = (needs_full_redraw \/ scan_ret)
  /\ last_patch_scan' = now
  /\ current_patch' = PatchAfterScan
  /\ CallPass(current_patch')
  /\ UNCHANGED << scan_files, scan_idx, current_files, changes_detected,
                  scan_ret, scan_pre, scan_called, scan_failed, scan_parsed >>
  /\ UNCHANGED << current_patch_key, next_patch, next_patch_key, running, bpm >>
  /\ UNCHANGED << fsv, inpv, storev, histv, callv >>

\* a swap that looks for the first slot whose patch has the name of p
KeyOfPatchByName(p) ==
  LET all == get_all_patches(patches, patch_keys_map)
      hits == { i \in 1..Len(all) : all[i][2].name = p.name }
  IN  IF hits = {} THEN current_patch_key
      ELSE Some(all[CHOOSE i \in hits : \A j \in hits : i <= j][1])

\* lines 578-581: the key of the first slot whose patch equals p, else unchanged
KeyOfPatch(p) ==
  LET all == get_all_patches(patches, patch_keys_map)
      hits == { i \in 1..Len(all) : all[i][2] = p }
  IN  IF hits = {} THEN current_patch_key
      ELSE Some(all[CHOOSE i \in hits : \A j \in hits : i <= j][1])

\* a looper that skips the swap when the queued patch is the current one
SwapDueOnChange == next_patch # None /\ next_patch # current_patch

\* line 574: if self.next_patch
SwapDue == next_patch # None

\* lines 569-585 after play_pattern_loop returned True: the swap to the queued patch
LoopBoundary ==
  /\ pc = "pass"
  /\ step_idx = Len(patch[1].bass_pattern)
  /\ pc' = "loop"
  /\ IF SwapDue
       THEN /\ current_patch' = next_patch
            /\ next_patch' = None
            /\ current_patch_key' = KeyOfPatch(next_patch[1])
            /\ next_patch_key' = None
       ELSE UNCHANGED << current_patch, next_patch, current_patch_key, next_patch_key >>
  /\ UNCHANGED << running, last_patch_scan, needs_full_redraw, bpm >>
  /\ UNCHANGED << fsv, inpv, storev, scanv, passv, obsv, histv, callv >>

\* an exception raised by scan_patches leaves run(): nothing there catches it
RunRaise ==
  /\ pc \in { "startup_scan", "loop_scan" }
  /\ scan_pc = "raised"
  /\ pc' = "crashed"
  /\ UNCHANGED << current_patch, current_patch_key, next_patch, next_patch_key,
                  running, last_patch_scan, needs_full_redraw, bpm >>
  /\ UNCHANGED << fsv, inpv, storev, scanv, passv, obsv, histv, callv >>

(***************************************************************************)
(* Specifications.                                                         *)
(***************************************************************************)
Environment ==
  \/ Tick
  \/ WriteFile(LooperDocs)
  \/ DeleteFile
  \/ RemoveDir
  \/ MakeDir
  \/ KeyPress

Scan ==
  \/ ScanBegin
  \/ ScanGlob
  \/ ScanStat
  \/ ScanRead
  \/ ScanFinish

Engine ==
  \/ RunStart
  \/ RunFirst
  \/ LoopPlay
  \/ LoopScan
  \/ LoopScanned
  \/ PassStep
  \/ LoopBoundary
  \/ RunRaise

Next == Environment \/ Scan \/ Engine

Spec == Init /\ [][Next]_vars

\* the program is one thread that always takes its next step
FairSpec == Spec /\ WF_vars(Scan \/ Engine)

(***************************************************************************)
(* The looper playing a patches directory that nobody edits: the operator  *)
(* presses keys and time passes.                                           *)
(***************************************************************************)
PlayInit == InitialDir(PlayDocs) /\ InitProgram

PlayNext ==
  \/ Tick
  \/ KeyPress
  \/ Scan
  \/ RunStart
  \/ RunFirst
  \/ LoopPlay
  \/ LoopScan
  \/ LoopScanned
  \/ PassStep
  \/ LoopBoundary

PlaySpec == PlayInit /\ [][PlayNext]_vars

(***************************************************************************)
(* The patch store on its own, as its unit tests use it: a client calls    *)
(* scan_patches again and again while the directory changes.               *)
(***************************************************************************)
\* loader.scan_patches() called by a client of the store; an exception raised
\* by an earlier call has ended the client, as it ends run() and the tests
ScanCall ==
  /\ pc = "run"
  /\ scan_pc \in { "idle", "returned" }
  /\ ScanFrame
  /\ last_call' = None
  /\ UNCHANGED << fsv, inpv, storev, engv, passv, obsv, dir_changes >>

StoreInit == InitialDir(StoreDocs) /\ InitProgram

StoreNext ==
  \/ Tick
  \/ WriteFile(StoreDocs)
  \/ DeleteFile
  \/ RemoveDir
  \/ MakeDir
  \/ ScanCall
  \/ Scan

StoreSpec == StoreInit /\ [][StoreNext]_vars

(***************************************************************************)
(* The slot map and the lookups: a directory of up to MaxPatches files,    *)
(* as in test_key_mapping_excess_patches, is scanned; one file is deleted  *)
(* at some time, as in test_key_mapping_updates_after_deletion; a client   *)
(* looks patches up between the scans.                                     *)
(***************************************************************************)
\* the numbers of files of the directories: fewer than there are slot keys, as
\* many, and more
SlotSizes == { 2, Len(PATCH_KEYS), MaxPatches }

\* the directory holds the first k of the patch_NN.json files, each with the
\* definition sample_patch_simple; the environment has one event left
SlotDir ==
  /\ env_ops = MaxOps - 1
  /\ dir_exists = TRUE
  /\ \E k \in SlotSizes :
       files = [ n \in { PatchName(i - 1) : i \in 1..k } |-> [ doc |-> 1, mtime |-> 0 ] ]

SlotInit == SlotDir /\ InitProgram

\* the keys a client asks for: every slot key and a key that is none
LookupKeys == PatchKeySet \cup { "1" }

\* a client calls get_first_patch()
LookupFirst ==
  /\ pc = "run"
  /\ scan_pc \in { "idle", "returned" }
  /\ last_call' = Some([ op |-> "get_first_patch", arg |-> "",
                      ret |-> get_first_patch(patches, patch_keys_map) ])
  /\ UNCHANGED << fsv, inpv, storev, scanv, engv, passv, obsv, histv >>

\* a client calls get_all_patches()
LookupAll ==
  /\ pc = "run"
  /\ scan_pc \in { "idle", "returned" }
  /\ last_call' = Some([ op |-> "get_all_patches", arg |-> "",
                      ret |-> get_all_patches(patches, patch_keys_map) ])
  /\ UNCHANGED << fsv, inpv, storev, scanv, engv, passv, obsv, histv >>

\* a client calls get_patch_by_key(key)
LookupByKey ==
  /\ pc = "run"
  /\ scan_pc \in { "idle", "returned" }
  /\ \E key \in LookupKeys :
       last_call' = Some([ op |-> "get_patch_by_key", arg |-> key,
                        ret |-> get_patch_by_key(patches, patch_keys_map, key) ])
  /\ UNCHANGED << fsv, inpv, storev, scanv, engv, passv, obsv, histv >>

SlotNext ==
  \/ DeleteFile
  \/ ScanCall
  \/ Scan
  \/ LookupFirst
  \/ LookupAll
  \/ LookupByKey

SlotSpec == SlotInit /\ [][SlotNext]_vars

(***************************************************************************)
(* The parser on its own: a directory holding any of the documents is      *)
(* scanned.                                                                *)
(***************************************************************************)
ParseInit == InitialDir(DocIds) /\ InitProgram

ParseNext == ScanCall \/ Scan

ParseSpec == ParseInit /\ [][ParseNext]_vars

(***************************************************************************)
(* The tempo controller and the drum table on their own, as their unit     *)
(* tests use them: a controller made with any tempo of its range is        *)
(* increased, decreased and asked for the step duration, and entries of    *)
(* the drum table are read.                                                *)
(***************************************************************************)
TempoInit ==
  /\ env_ops = 0
  /\ dir_exists = FALSE
  /\ files = EmptyDict
  /\ \E b \in min_bpm..max_bpm : InitLooper(b)

\* a client calls increase()
TempoIncrease ==
  /\ pc = "run"
  /\ bpm' = increase(bpm)
  /\ last_call' = Some([ op |-> "increase", arg |-> bpm, ret |-> bpm' ])
  /\ UNCHANGED << pc, current_patch, current_patch_key, next_patch, next_patch_key,
                  running, last_patch_scan, needs_full_redraw >>
  /\ UNCHANGED << fsv, inpv, storev, scanv, passv, obsv, histv >>

\* a client calls decrease()
TempoDecrease ==
  /\ pc = "run"
  /\ bpm' = decrease(bpm)
  /\ last_call' = Some([ op |-> "decrease", arg |-> bpm, ret |-> bpm' ])
  /\ UNCHANGED << pc, current_patch, current_patch_key, next_patch, next_patch_key,
                  running, last_patch_scan, needs_full_redraw >>
  /\ UNCHANGED << fsv, inpv, storev, scanv, passv, obsv, histv >>

\* a client calls get_step_duration_ms()
TempoDuration ==
  /\ pc = "run"
  /\ last_call' = Some([ op |-> "get_step_duration_ms", arg |-> bpm,
                       ret |-> get_step_duration_ms(bpm) ])
  /\ UNCHANGED << fsv, inpv, storev, scanv, engv, passv, obsv, histv >>

\* a client reads DrumPatternGenerator.DRUMS[name]
DrumRead ==
  /\ pc = "run"
  /\ \E name \in DOMAIN DRUMS :
       last_call' = Some([ op |-> "DRUMS", arg |-> name, ret |-> DRUMS[name] ])
  /\ UNCHANGED << fsv, inpv, storev, scanv, engv, passv, obsv, histv >>

TempoNext == TempoIncrease \/ TempoDecrease \/ TempoDuration \/ DrumRead

TempoSpec == TempoInit /\ [][TempoNext]_vars

(***************************************************************************)
(* Properties of the playback engine.                                      *)
(***************************************************************************)
\* the note-on and note-off events among the events of a step
SoundOf(events) == SelectSeq(events, LAMBDA e : e[1] \in { "on", "off" })

\* the note-on events on the bass channel among the events of a step
BassOnsOf(events) ==
  SelectSeq(events, LAMBDA e : e[1] = "on" /\ e[2] = bass_channel)

\* the engine polled a key in this step (the operator only ever adds keys)
Polled == pc = "pass" /\ Len(inputq') = Len(inputq) - 1

\* a pass has just ended normally and run() is at its loop boundary
AtBoundary == pc = "pass" /\ patch # None /\ step_idx = Len(patch[1].bass_pattern)

\* C1: all through a pass, whatever keys are polled, the steps played so far
\* are steps 0, 1, 2, ... of the patch that was current when the pass started,
\* each once and in order, and every sound event comes from that patch; so a
\* completed pass has played exactly its N steps.
C1_PassPlaysStartPattern ==
  pc = "pass" =>
    LET p == pass_current[1] IN
      /\ Len(pass_log) = step_idx
      /\ step_idx <= Len(p.bass_pattern)
      /\ \A i \in 1..Len(pass_log) :
           /\ BassOnsOf(pass_log[i]) =
                << << "on", bass_channel, p.bass_pattern[i][1], p.bass_pattern[i][2] >> >>
           /\ SoundOf(pass_log[i]) = SoundOf(StepEvents(p, i - 1, bpm))

\* C1 witness: a two-step pass has run to completion although a slot key for
\* another patch was pressed and the tempo was changed during it
C1_Witness ==
  /\ AtBoundary
  /\ step_idx = 2
  /\ next_patch # None
  /\ next_patch # pass_current
  /\ bpm # initial_bpm

\* C2: while a pass runs the current patch and its key do not change and a
\* queued patch stays queued; when the pass has ended with a patch queued, that
\* patch becomes current and the queued patch and the queued key are cleared;
\* every pass starts at step 0 of the patch that is current then.
C2_SwapAtBoundary ==
  [][ /\ (pc = "pass" /\ pc' = "pass") =>
           /\ current_patch' = current_patch
           /\ current_patch_key' = current_patch_key
           /\ (next_patch # None => next_patch' # None)
      /\ (pc = "pass" /\ pc' = "loop" /\ next_patch # None) =>
           /\ step_idx = Len(patch[1].bass_pattern)
           /\ current_patch' = next_patch
           /\ next_patch' = None
           /\ next_patch_key' = None
      /\ (pc # "pass" /\ pc' = "pass") =>
           /\ step_idx' = 0
           /\ patch' = current_patch'
    ]_vars

\* C2 witness: a pass of the patch in slot w has started, which only a swap at
\* a loop boundary can make current, and the queue is empty again
C2_Witness ==
  /\ pc = "pass"
  /\ step_idx = 0
  /\ current_patch_key = Some("w")
  /\ patch = current_patch
  /\ next_patch = None
  /\ next_patch_key = None

\* C3: at most one patch is pending, and it is the one asked for by the last
\* valid slot key of the pass; that one becomes current at the loop boundary.
C3_LastRequestWins ==
  /\ [](Len(next_patch) <= 1)
  /\ [](pc = "pass" =>
          /\ (pass_requests = << >> => next_patch = None)
          /\ (pass_requests # << >> =>
                /\ next_patch = Some(pass_requests[Len(pass_requests)][2])
                /\ next_patch_key = Some(pass_requests[Len(pass_requests)][1])))
  /\ [][ (pc = "pass" /\ pc' = "loop" /\ pass_requests # << >>) =>
           current_patch' = Some(pass_requests[Len(pass_requests)][2]) ]_vars
  /\ [][ (Polled /\ pc' = "pass") =>
           LET k == Head(inputq) IN
             IF k \in Chars /\ Lower(k) \in DOMAIN patch_keys_map
               THEN pass_requests' =
                      Append(pass_requests, << Lower(k), patches[patch_keys_map[Lower(k)]] >>)
               ELSE pass_requests' = pass_requests ]_vars

\* C3 witness: two different patches were asked for in one pass and the second
\* one is current after the loop boundary
C3_Witness ==
  /\ pc = "loop"
  /\ Len(pass_requests) = 2
  /\ pass_requests[1][2] # pass_requests[2][2]
  /\ current_patch = Some(pass_requests[2][2])
  /\ pass_current # current_patch

\* C4: a step that polls ESC plays nothing and stops the engine; once stopped
\* the engine stays stopped, nothing more is sent to the player and neither the
\* current nor the queued patch changes.
C4_QuitStopsSilently ==
  /\ [][ (Polled /\ Head(inputq) = KEY_ESC) =>
           /\ pc' = "stopped"
           /\ running' = FALSE
           /\ UNCHANGED << pass_log, current_patch, current_patch_key,
                           next_patch, next_patch_key >> ]_vars
  /\ [][ pc = "stopped" =>
           /\ pc' = "stopped"
           /\ UNCHANGED << pass_log, current_patch, current_patch_key,
                           next_patch, next_patch_key >> ]_vars

\* C4 witness: ESC was polled at step 1 of a pass in which another patch had
\* been queued at step 0: one step played, the queued patch still pending
C4_Witness ==
  /\ pc = "stopped"
  /\ Len(pass_log) = 1
  /\ next_patch # None
  /\ next_patch # current_patch

\* C5: whenever the engine is in its playing loop with an ESC pending in the
\* input queue, it eventually reaches the stopped state.
C5_QuitEventuallyStops ==
  (pc \in { "loop", "loop_scan", "pass" } /\ \E i \in 1..Len(inputq) : inputq[i] = KEY_ESC)
    ~> (pc = "stopped")

\* C6: when the startup scan has returned and no key is mapped to a patch, run()
\* goes to the no-patches report and stays there; no pass was or will be started
\* and nothing is sent to the player.
C6_NoPatchesNoLoop ==
  /\ [][ ( /\ pc = "startup_scan" /\ pc' # "startup_scan"
           /\ scan_pc = "returned" /\ DOMAIN patch_keys_map = {} )
         => pc' = "no_patches" ]_vars
  /\ [](pc = "no_patches" => ~passes /\ pass_log = << >> /\ current_patch = None)
  /\ [][ pc = "no_patches" => pc' = "no_patches" /\ UNCHANGED << passes, pass_log >> ]_vars

\* C6 witness: the no-patches report for a directory that holds files, none of
\* which parses
C6_Witness ==
  /\ pc = "no_patches"
  /\ dir_exists
  /\ DOMAIN files # {}
  /\ env_ops = 0

\* C7: the patch that is current when run() enters its loop for the first time
\* has at least one bass step.
C7_FirstPatchHasSteps ==
  (pc = "loop" /\ ~passes /\ current_patch # None) =>
    Len(current_patch[1].bass_pattern) >= 1

\* C8: a pass plays the version of its patch that the store holds: whenever a
\* pass runs and the store holds a patch under the id of the patch being played,
\* the two are equal.
C8_PassPlaysStoredVersion ==
  (pc = "pass" /\ patch # None /\ patch[1].file \in DOMAIN patches) =>
    patches[patch[1].file] = patch[1]

(***************************************************************************)
(* Properties of the patch store.                                          *)
(***************************************************************************)
\* C9: scan_patches never raises.
C9_ScanNeverRaises == scan_pc # "raised"

\* C10: when scan_patches has returned, every file whose parse failed during
\* the call has the store entry it had when the call started: none if it had
\* none, else the same patch, which the key lookup still returns; and a call
\* that stored no patch and removed none has returned False.
C10_FailedParseKeepsEntry ==
  scan_pc = "returned" =>
    /\ \A n \in scan_failed :
         /\ n \in DOMAIN patches <=> n \in DOMAIN scan_pre
         /\ n \in DOMAIN scan_pre =>
              /\ patches[n] = scan_pre[n]
              /\ \A k \in DOMAIN patch_keys_map :
                   patch_keys_map[k] = n =>
                     get_patch_by_key(patches, patch_keys_map, k) = Some(scan_pre[n])
    /\ (scan_parsed = {} /\ DOMAIN scan_pre \subseteq DOMAIN patches) => scan_ret = FALSE

\* C10 witness: a scan has returned False after failing on two files, one whose
\* earlier version is still stored and one that was never stored
C10_Witness ==
  /\ scan_pc = "returned"
  /\ scan_ret = FALSE
  /\ \E n \in scan_failed :
       /\ n \in DOMAIN patches
       /\ \E k \in DOMAIN patch_keys_map : patch_keys_map[k] = n
  /\ \E n \in scan_failed : n \notin DOMAIN patches

\* the ids scan_patches has removed from the store since it was called
Removed == DOMAIN scan_pre \ DOMAIN patches

\* the ids scan_patches has added to the store since it was called
Added == DOMAIN patches \ DOMAIN scan_pre

\* C11: when scan_patches has returned, its result is True exactly if the call
\* stored a patch (a new id, or a re-parse under an id already stored) or
\* removed one; a call that found no directory or no files, or whose files all
\* were up to date or failed to parse, has returned False and left the store
\* as it was.
C11_ReturnsTrueIffChanged ==
  scan_pc = "returned" =>
    /\ scan_ret = (scan_parsed # {} \/ Removed # {})
    /\ Added \subseteq scan_parsed
    /\ (~scan_ret => patches = scan_pre)

\* C11 witness: a call has returned True although it parsed nothing: all it
\* did was remove the patch of a deleted file
C11_Witness ==
  /\ scan_pc = "returned"
  /\ scan_ret = TRUE
  /\ scan_parsed = {}
  /\ Removed # {}
  /\ dir_exists

\* every file of the directory holds a definition that parses
ValidDir == \A n \in DOMAIN files : ~ParseRaises(Docs[files[n].doc])

\* scan_patches returns in this step
ScanReturns == scan_pc # "returned" /\ scan_pc' = "returned"

\* C12: over a directory of valid definitions, a scan returns False and leaves
\* the store as it was when no file was added, removed or changed in content
\* since the previous scan, and the first scan after a single such change
\* returns True (so that each change makes exactly one scan return True).
C12_OneTruePerChange ==
  [][ (ScanReturns /\ ValidDir) =>
        /\ (dir_changes = 0 => scan_ret' = FALSE /\ patches' = scan_pre)
        /\ (dir_changes = 1 /\ scan_quiet => scan_ret' = TRUE) ]_vars

\* C13: when a scan has returned over a directory that was left alone while it
\* ran, every file that was loaded before the scan and holds a valid
\* definition is stored with its present content, and a file whose content
\* differs from what was stored has been re-parsed by a scan that returned True.
C13_RewriteIsReloaded ==
  (scan_pc = "returned" /\ scan_quiet /\ dir_exists) =>
    \A n \in DOMAIN files \cap DOMAIN scan_pre :
      LET doc == Docs[files[n].doc] IN
        ~ParseRaises(doc) =>
          /\ n \in DOMAIN patches
          /\ patches[n] = ParsePatch(n, doc)
          /\ (scan_pre[n] # ParsePatch(n, doc) => n \in scan_parsed /\ scan_ret = TRUE)

\* C14: when a scan has returned over a directory that was left alone while it
\* ran, every stored patch and every patch in the slot map has a file in the
\* directory, and a scan that removed a patch has returned True.
C14_NoPatchWithoutSource ==
  (scan_pc = "returned" /\ scan_quiet) =>
    /\ DOMAIN patches \subseteq DOMAIN files
    /\ \A k \in DOMAIN patch_keys_map : patch_keys_map[k] \in DOMAIN files
    /\ (Removed # {} => scan_ret = TRUE)

(***************************************************************************)
(* Properties of the slot map and the lookups.                             *)
(***************************************************************************)
\* the position of id x in lexicographic order among the ids S, from 1
RankIn(x, S) ==
  LET pos(y) == CHOOSE i \in 1..Len(IdOrder) : IdOrder[i] = y
  IN  Cardinality({ y \in S : pos(y) < pos(x) }) + 1

\* the position of key k in PATCH_KEYS, from 1
KeyPos(k) == CHOOSE i \in 1..Len(PATCH_KEYS) : PATCH_KEYS[i] = k

\* no scan is running and none has raised: the store is as a caller sees it
BetweenScans == scan_pc \in { "idle", "returned" }

\* C15: when a scan has returned, exactly the first min(n, 26) keys of
\* PATCH_KEYS are mapped, n being the number of stored ids, and the i-th key
\* is mapped to the stored id that is i-th in lexicographic order; no key is
\* mapped to an id beyond the 26th, and after a scan over a directory left
\* alone every file that parses is stored under its id, with or without a
\* slot.
C15_SlotsFollowSortedIds ==
  scan_pc = "returned" =>
    LET ids == Sorted(DOMAIN patches)
        n == Min(Len(ids), Len(PATCH_KEYS))
    IN  /\ DOMAIN patch_keys_map = { PATCH_KEYS[i] : i \in 1..n }
        /\ \A i \in 1..n : patch_keys_map[PATCH_KEYS[i]] = ids[i]
        /\ \A i \in (n + 1)..Len(ids) :
             \A k \in DOMAIN patch_keys_map : patch_keys_map[k] # ids[i]
        /\ (scan_quiet /\ dir_exists) =>
               \A x \in DOMAIN files :
                 ~ParseRaises(Docs[files[x].doc]) =>
                   x \in DOMAIN patches /\ patches[x].file = x

\* C15 witness: a scan has removed a patch that held a slot from a store of
\* more than 26; all 26 keys are mapped again, the ids behind the removed one
\* have moved down by one slot and the last id still has no slot
C15_Witness ==
  /\ scan_pc = "returned"
  /\ Cardinality(DOMAIN patches) > Len(PATCH_KEYS)
  /\ Cardinality(DOMAIN patch_keys_map) = Len(PATCH_KEYS)
  /\ \E x \in Removed :
       /\ RankIn(x, DOMAIN scan_pre) <= Len(PATCH_KEYS)
       /\ \E k \in DOMAIN patch_keys_map :
            KeyPos(k) + 1 = RankIn(patch_keys_map[k], DOMAIN scan_pre)

\* the slot map as a function of a set of ids alone
SlotsOf(S) ==
  [ key \in { PATCH_KEYS[i] : i \in 1..Min(Cardinality(S), Len(PATCH_KEYS)) } |->
      CHOOSE x \in S : RankIn(x, S) = KeyPos(key) ]

C17_LookupsFollowSlots ==
  last_call # None =>
    LET l == last_call[1] IN
      /\ l.op = "get_all_patches" =>
            /\ Len(l.ret) = Cardinality(DOMAIN patch_keys_map)
            /\ \A i \in 1..Len(l.ret) :
                 /\ l.ret[i][1] \in DOMAIN patch_keys_map
                 /\ l.ret[i][2] = patches[patch_keys_map[l.ret[i][1]]]
                 /\ \A j \in 1..Len(l.ret) :
                      i < j => KeyPos(l.ret[i][1]) < KeyPos(l.ret[j][1])
      /\ l.op = "get_first_patch" =>
            IF DOMAIN patch_keys_map = {}
              THEN l.ret = None
              ELSE /\ Len(l.ret) = 1
                   /\ l.ret[1][1] = "q"
                   /\ l.ret[1][2].file \in DOMAIN patches
                   /\ RankIn(l.ret[1][2].file, DOMAIN patches) = 1
                   /\ l.ret[1][2] = patches[l.ret[1][2].file]
      /\ l.op = "get_patch_by_key" =>
            IF l.arg \in DOMAIN patch_keys_map
              THEN l.ret = Some(patches[patch_keys_map[l.arg]])
              ELSE l.ret = None

\* C17 witness: get_first_patch has returned slot q with a patch that moved
\* there when the smallest id was removed, all 26 keys being mapped
C17_Witness ==
  /\ last_call # None
  /\ last_call[1].op = "get_first_patch"
  /\ last_call[1].ret # None
  /\ Cardinality(DOMAIN patch_keys_map) = Len(PATCH_KEYS)
  /\ \E x \in Removed : RankIn(x, DOMAIN scan_pre) = 1

(***************************************************************************)
(* Properties of the parser.                                               *)
(***************************************************************************)
\* the definitions the patch format does not allow: a required field is
\* missing, a bass step has not three elements, or a field has the wrong type
Malformed(doc) ==
  \/ ~doc.wellformed
  \/ "name" \notin doc.has
  \/ "bass_pattern" \notin doc.has
  \/ \E i \in 1..Len(doc.bass_pattern) : Len(doc.bass_pattern[i]) # 3
  \/ doc.mistyped # {}

\* C18: scan_patches does not raise on a directory that is left alone, and
\* when it has returned no file is stored whose definition lacks name or
\* bass_pattern, has a bass step that is not a 3-element sequence, or has a
\* pitch, velocity, label or name of the wrong type.
C18_MalformedIsRejected ==
  /\ scan_pc # "raised"
  /\ scan_pc = "returned" =>
       \A n \in DOMAIN files : Malformed(Docs[files[n].doc]) => n \notin DOMAIN patches

\* C19: when a scan has returned, every stored patch has the name and the bass
\* steps of its file, in the same order and number; one drum step for each
\* element of drum_pattern.steps, at the same index, with the same hits and
\* the label drums_<index>, or no drum step when drum_pattern or its steps
\* are absent; and the description of its file, or the empty string when the
\* file has none.
C19_ParseKeepsContent ==
  scan_pc = "returned" =>
    \A n \in DOMAIN patches :
      LET doc == Docs[files[n].doc]
          p == patches[n]
      IN  /\ p.name = doc.name
          /\ p.file = n
          /\ Len(p.bass_pattern) = Len(doc.bass_pattern)
          /\ \A i \in 1..Len(doc.bass_pattern) : p.bass_pattern[i] = doc.bass_pattern[i]
          /\ p.description = IF "description" \in doc.has THEN doc.description ELSE ""
          /\ IF "drum_pattern" \in doc.has /\ "steps" \in doc.has
               THEN /\ Len(p.drum_pattern) = Len(doc.steps)
                    /\ \A i \in 1..Len(doc.steps) :
                         /\ p.drum_pattern[i][2] = DrumLabel(i - 1)
                         /\ Len(p.drum_pattern[i][1]) = Len(doc.steps[i])
                         /\ \A j \in 1..Len(doc.steps[i]) :
                              /\ p.drum_pattern[i][1][j][1] = doc.steps[i][j][1]
                              /\ p.drum_pattern[i][1][j][2] = doc.steps[i][j][2]
               ELSE p.drum_pattern = << >>

\* C19 witness: a scan has stored a patch of three drum steps, the second
\* without a hit, that has no description, and a patch of a file without
\* drum_pattern
C19_Witness ==
  /\ scan_pc = "returned"
  /\ \E n \in scan_parsed :
       /\ "description" \notin Docs[files[n].doc].has
       /\ Len(patches[n].drum_pattern) = 3
       /\ patches[n].drum_pattern[2][1] = << >>
       /\ patches[n].description = ""
  /\ \E n \in scan_parsed :
       /\ "drum_pattern" \notin Docs[files[n].doc].has
       /\ Len(patches[n].bass_pattern) = 3
       /\ patches[n].drum_pattern = << >>

(***************************************************************************)
(* Properties of the tempo controller.                                     *)
(***************************************************************************)
\* C20: the bpm is always within [min_bpm, max_bpm]; increase() has added
\* exactly tempo_step unless the bpm was max_bpm, where it left it; decrease()
\* has subtracted exactly tempo_step unless the bpm was min_bpm, where it
\* left it.
C20_TempoSaturates ==
  /\ bpm \in min_bpm..max_bpm
  /\ last_call # None =>
       LET c == last_call[1] IN
         /\ c.op \in { "increase", "decrease" } => bpm = c.ret
         /\ c.op = "increase" => c.ret = IF c.arg = max_bpm THEN max_bpm ELSE c.arg + 1
         /\ c.op = "decrease" => c.ret = IF c.arg = min_bpm THEN min_bpm ELSE c.arg - 1

\* C20 witness: increase() was called at the upper limit
C20_Witness ==
  /\ last_call # None
  /\ last_call[1].op = "increase"
  /\ last_call[1].arg = max_bpm
  /\ bpm = max_bpm

\* C21: at every tempo of [min_bpm, max_bpm] a call of get_step_duration_ms()
\* returns (60000 / bpm) / 4 for the bpm the controller has at that call,
\* whatever increase() and decrease() calls came before (nothing is cached);
\* and an increase() that raised the bpm makes the step duration strictly
\* smaller than it was.
C21_StepDurationFollowsBpm ==
  [][ /\ (last_call' # None /\ last_call'[1].op = "get_step_duration_ms") =>
           LET d == last_call'[1].ret IN
             /\ bpm' \in min_bpm..max_bpm
             /\ d[1] * 4 * bpm' = 60000 * d[2]
      /\ (last_call' # None /\ last_call'[1].op = "increase" /\ bpm' > bpm) =>
           FracLess(get_step_duration_ms(bpm'), get_step_duration_ms(bpm))
    ]_vars

\* C21 witness: get_step_duration_ms() was called at 137 bpm, the tempo of
\* test_step_duration_precision, and returned 60000 / 548 ms
C21_Witness ==
  /\ last_call # None
  /\ last_call[1].op = "get_step_duration_ms"
  /\ bpm = 137
  /\ last_call[1].ret = << 60000, 548 >>

(***************************************************************************)
(* Properties of the event stream of a pass.                               *)
(***************************************************************************)
RECURSIVE Flatten(_)
\* the events of the steps of log, one after the other
Flatten(log) == IF log = << >> THEN << >> ELSE Head(log) \o Flatten(Tail(log))

\* the events sent to the player since the pass started, sleeps left out
PassStream == SoundOf(Flatten(pass_log))

\* TRUE iff the events e[i] and e[j] are for the same channel and pitch
SameVoice(e, i, j) == e[i][2] = e[j][2] /\ e[i][3] = e[j][3]

\* C22: in the stream of sound events of a pass, a note-on for a channel and
\* pitch is followed by a note-off for that channel and pitch, and no second
\* note-on for them comes before that note-off.
C22_OnOffStrictlyPaired ==
  LET e == PassStream IN
    \A i \in 1..Len(e) :
      e[i][1] = "on" =>
        /\ \E j \in (i + 1)..Len(e) : e[j][1] = "off" /\ SameVoice(e, i, j)
        /\ \A k \in (i + 1)..Len(e) :
             (e[k][1] = "on" /\ SameVoice(e, i, k)) =>
               \E j \in (i + 1)..(k - 1) : e[j][1] = "off" /\ SameVoice(e, i, j)

\* the events on the drum channel among the events of a step
DrumEventsOf(events) ==
  SelectSeq(events, LAMBDA e : e[1] \in { "on", "off" } /\ e[2] = rhythm_channel)

\* C23: whatever the lengths of a patch's bass and drum sequences, the pass
\* does not fail and plays one step per bass step: a step whose index is at
\* or beyond the length of the drum sequence sends nothing on the drum
\* channel, a step below it sends a note-on and a note-off for each hit of
\* the drum step of the same index, and no drum step at or beyond the length
\* of the bass sequence is played.
C23_DrumLengthIndependent ==
  /\ pc # "crashed"
  /\ pc = "pass" =>
       LET bass == patch[1].bass_pattern
           drums == patch[1].drum_pattern
       IN
         /\ Len(pass_log) = step_idx
         /\ step_idx <= Len(bass)
         /\ \A i \in 1..Len(pass_log) :
              LET sent == DrumEventsOf(pass_log[i]) IN
                /\ Len(BassOnsOf(pass_log[i])) = 1
                /\ IF i > Len(drums)
                     THEN sent = << >>
                     ELSE LET hits == drums[i][1]
                              n == Len(hits)
                          IN  /\ Len(sent) = 2 * n
                              /\ \A h \in 1..n :
                                   /\ sent[h] = << "on", rhythm_channel, hits[h][1], hits[h][2] >>
                                   /\ sent[n + h] = << "off", rhythm_channel, hits[h][1] >>

\* C23 witness: a pass over a patch with fewer drum steps than bass steps
\* has played every bass step, the first with drums and the last without
C23_Witness ==
  /\ AtBoundary
  /\ Len(patch[1].drum_pattern) > 0
  /\ Len(patch[1].drum_pattern) < Len(patch[1].bass_pattern)
  /\ Len(pass_log) = Len(patch[1].bass_pattern)
  /\ DrumEventsOf(pass_log[1]) # << >>
  /\ DrumEventsOf(pass_log[Len(pass_log)]) = << >>

\* the channel and pitch pairs of the events of kind k among events
VoicesOf(events, k) ==
  { << events[x][2], events[x][3] >> : x \in { y \in 1..Len(events) : events[y][1] = k } }

\* C25: each step played consists of, in this order: a note-on on the drum
\* channel for every hit of the drum step, the note-on of the bass note on
\* the bass channel, a hold whose length is the step duration of a tempo,
\* note-offs for exactly the channel and pitch pairs turned on in the step,
\* and the gap of 10 ms; so every note-off of a step comes before every
\* note-on of the next step.
C25_StepEventOrder ==
  pc = "pass" =>
    \A i \in 1..Len(pass_log) :
      LET e == pass_log[i]
          n == IF i <= Len(patch[1].drum_pattern)
                 THEN Len(patch[1].drum_pattern[i][1]) ELSE 0
          bass == patch[1].bass_pattern[i]
      IN  /\ Len(e) >= n + 4
          /\ \A h \in 1..n :
               /\ e[h][1] = "on"
               /\ e[h][2] = rhythm_channel
               /\ e[h][3] = patch[1].drum_pattern[i][1][h][1]
          /\ e[n + 1] = << "on", bass_channel, bass[1], bass[2] >>
          /\ e[n + 2][1] = "sleep"
          /\ \E b \in min_bpm..max_bpm : e[n + 2][2] = << 60000, 4 * b >>
          /\ \A x \in (n + 3)..(Len(e) - 1) : e[x][1] = "off"
          /\ VoicesOf(e, "off") = VoicesOf(e, "on")
          /\ e[Len(e)] = << "sleep", << 10, 1 >> >>

\* C25 witness: two steps have been played, the first with two drum hits or
\* more, the second with one
C25_Witness ==
  /\ pc = "pass"
  /\ Len(pass_log) = 2
  /\ Len(patch[1].drum_pattern) = 2
  /\ Len(patch[1].drum_pattern[1][1]) >= 2
  /\ Len(patch[1].drum_pattern[2][1]) = 1

\* the length of the hold among the events of a step
HoldOf(events) == SelectSeq(events, LAMBDA e : e[1] = "sleep")[1][2]

\* an iteration of the for loop has played a step
StepPlayed == pc = "pass" /\ pc' = "pass" /\ step_idx' = step_idx + 1

\* C26: the hold of a step is the step duration of the bpm as it is after
\* the key polled in that step was handled: a tempo key polled at step i
\* that moves the bpm makes the hold of step i shorter (up) or longer (down)
\* than the step duration before it; the new bpm stays in effect for the
\* later steps, since only a polled tempo key changes the bpm; and the
\* holds of the steps already played stay as they were.
C26_HoldUsesCurrentTempo ==
  [][ /\ StepPlayed =>
           LET hold == HoldOf(pass_log'[Len(pass_log')]) IN
             /\ hold = << 60000, 4 * bpm' >>
             /\ (PolledKey = KEY_UP /\ bpm < max_bpm) =>
                  bpm' = bpm + tempo_step /\ FracLess(hold, << 60000, 4 * bpm >>)
             /\ (PolledKey = KEY_DOWN /\ bpm > min_bpm) =>
                  bpm' = bpm - tempo_step /\ FracLess(<< 60000, 4 * bpm >>, hold)
             /\ SubSeq(pass_log', 1, Len(pass_log)) = pass_log
      /\ bpm' # bpm => StepPlayed /\ PolledKey \in { KEY_UP, KEY_DOWN }
    ]_vars

\* C26 witness: step 0 was held at the initial tempo, then an arrow-up key
\* was polled at step 1, whose hold is shorter
C26_Witness ==
  /\ pc = "pass"
  /\ Len(pass_log) = 2
  /\ bpm = initial_bpm + tempo_step
  /\ HoldOf(pass_log[1]) = << 60000, 4 * initial_bpm >>
  /\ HoldOf(pass_log[2]) = << 60000, 4 * (initial_bpm + tempo_step) >>

\* C27: an iteration of the for loop polls the keyboard once and goes on
\* whether or not a key was pending: it takes the oldest pending key, if
\* any, and leaves the others pending in their order; what it does is what
\* that key asks for; keys are taken nowhere else while the looper plays (the
\* one other poll is that of the exit without patches), so a pass over N
\* steps takes at most N keys, in the order they arrived.
C27_OnePollPerStep ==
  [][ /\ (pc = "pass" /\ (StepPlayed \/ pc' = "stopped")) =>
           /\ step_idx < Len(patch[1].bass_pattern)
           /\ inputq' = IF inputq = << >> THEN << >> ELSE Tail(inputq)
           /\ pc' = "stopped" <=> (inputq # << >> /\ Head(inputq) = KEY_ESC)
           /\ StepPlayed =>
                /\ bpm' > bpm <=> (inputq # << >> /\ Head(inputq) = KEY_UP)
                /\ bpm' < bpm <=> (inputq # << >> /\ Head(inputq) = KEY_DOWN)
                /\ Len(pass_log') = Len(pass_log) + 1
      /\ Len(inputq') < Len(inputq) =>
           \/ pc = "pass" /\ (StepPlayed \/ pc' = "stopped")
           \/ pc = "startup_scan" /\ pc' = "no_patches"
      /\ Len(inputq') >= Len(inputq) =>
           \/ inputq' = inputq
           \/ inputq = << >> /\ inputq' = << >>
           \/ \E k \in Keys : inputq' = Append(inputq, k)
    ]_vars

\* C27 witness: two keys were pending, arrow-up pressed first and
\* arrow-down second; the first step has taken arrow-up only
C27_Witness ==
  /\ pc = "pass"
  /\ step_idx = 1
  /\ env_ops = 2
  /\ bpm = initial_bpm + tempo_step
  /\ inputq = << KEY_DOWN >>

\* C28: scan_patches is called at the start of run() and at the top of its
\* loop only, never while a pass is under way: from the first step of a pass
\* to its last the store's patches and its slot map stay as they are,
\* whatever is done to the files meanwhile.
C28_NoScanDuringPass ==
  [][ /\ (scan_pc' = "begin" /\ scan_pc # "begin") => pc \in { "run", "loop" }
      /\ pc = "pass" =>
           /\ scan_pc = "idle" /\ scan_pc' = "idle"
           /\ patches' = patches
           /\ patch_keys_map' = patch_keys_map
           /\ last_scan_time' = last_scan_time
    ]_vars

\* C28 witness: in the middle of a pass the file of the patch being played
\* is gone from the directory, and the store still holds the patch
C28_Witness ==
  /\ pc = "pass"
  /\ step_idx >= 1
  /\ step_idx < Len(patch[1].bass_pattern)
  /\ patch[1].file \notin DOMAIN files
  /\ patch[1].file \in DOMAIN patches
  /\ patches[patch[1].file] = patch[1]

\* C29: whenever the engine calls scan_patches, at the start of run() or in
\* its loop, at least ScanInterval seconds have passed since its previous
\* call of scan_patches, the startup scan included.
C29_ScansOneSecondApart ==
  [][ (scan_pc' = "begin" /\ scan_pc # "begin" /\ scan_called # None) =>
        now - scan_called[1] >= ScanInterval
    ]_vars

\* C30: when a pass starts, if the patch being played still holds a slot in
\* the store's slot map, then current_patch_key is set and the slot map maps
\* it to the id of that patch, also after a scan that shifted the slots.
C30_CurrentKeyFollowsSlots ==
  (pc = "pass" /\ step_idx = 0 /\ pass_log = << >>) =>
    LET id == current_patch[1].file IN
      (\E k \in DOMAIN patch_keys_map : patch_keys_map[k] = id) =>
        /\ current_patch_key # None
        /\ current_patch_key[1] \in DOMAIN patch_keys_map
        /\ patch_keys_map[current_patch_key[1]] = id

(***************************************************************************)
(* Properties of the drum table.                                           *)
(***************************************************************************)
\* the drums other than the two toms that may share a pitch
NonToms == DOMAIN DRUMS \ { "tom_high", "tom_mid" }

\* C24: the drum table is kick 36, snare 38, closed_hh 42, open_hh 46,
\* tom_high 47, tom_mid 47, tom_low 45, clap 50: whichever entry is read has
\* that pitch; the drums other than tom_high and tom_mid have pairwise
\* distinct pitches, and tom_high and tom_mid are each 45 or 47.
C24_DrumTable ==
  (last_call # None /\ last_call[1].op = "DRUMS") =>
    LET name == last_call[1].arg
        note == last_call[1].ret
    IN  /\ note = [ kick |-> 36, snare |-> 38, closed_hh |-> 42, open_hh |-> 46,
                    tom_high |-> 47, tom_mid |-> 47, tom_low |-> 45,
                    clap |-> 50 ][name]
        /\ name \in NonToms => \A other \in NonToms \ { name } : DRUMS[other] # note
        /\ name \notin NonToms => note \in { 45, 47 }

(***************************************************************************)
(* Properties of the queue, the swap and the redraw flag.                  *)
(***************************************************************************)
\* run() takes the queued patch over at the loop boundary
Swaps == pc = "pass" /\ pc' = "loop" /\ next_patch # None

\* C31: while a patch is queued no scan runs or starts; so at every swap the
\* store still holds the queued patch under the queued slot key, and the
\* swap makes the queued patch the current one and the queued slot key the
\* current slot key.
C31_SwapFindsQueuedPatch ==
  [][ /\ next_patch # None =>
           /\ pc \in { "pass", "stopped" }
           /\ scan_pc = "idle" /\ scan_pc' = "idle"
      /\ Swaps =>
           /\ next_patch_key # None
           /\ next_patch_key[1] \in DOMAIN patch_keys_map
           /\ patch_keys_map[next_patch_key[1]] \in DOMAIN patches
           /\ patches[patch_keys_map[next_patch_key[1]]] = next_patch[1]
           /\ current_patch' = next_patch
           /\ current_patch_key' = next_patch_key
    ]_vars

\* C31 witness: a pass in which slot w was asked for has ended with the swap
\* from the patch of slot q to the patch of slot w, which holds the same
\* definition under another id
C31_Witness ==
  /\ pc = "loop"
  /\ pass_requests # << >>
  /\ pass_requests[Len(pass_requests)][1] = "w"
  /\ current_patch_key = Some("w")
  /\ next_patch = None
  /\ current_patch # pass_current
  /\ current_patch[1].name = pass_current[1].name

\* the store no longer holds the id of the patch that run() plays
Orphaned == current_patch # None /\ current_patch[1].file \notin DOMAIN patches

\* C32: when a scan has removed the id of the current patch from the store,
\* run() goes on: it starts the next pass with the patch it holds, unchanged;
\* every step played is a step of that patch; only the swap to a queued
\* patch replaces it; and the engine is left only when a call of scan_patches
\* raises, never because the patch is gone.
C32_RemovedPatchKeepsPlaying ==
  [][ Orphaned =>
        /\ (pc = "loop_scan" /\ scan_pc = "returned" /\ pc' # pc) =>
             /\ pc' = "pass"
             /\ patch' = current_patch
             /\ current_patch' = current_patch
        /\ current_patch' # current_patch => Swaps
        /\ pc = "pass" => patch = current_patch
        /\ StepPlayed =>
             pass_log' = Append(pass_log, StepEvents(current_patch[1], step_idx, bpm'))
        /\ pc' = "crashed" => (pc = "crashed" \/ scan_pc = "raised")
    ]_vars

\* C32 witness: a whole pass of a patch has been played although neither the
\* directory nor the store holds its id any more
C32_Witness ==
  /\ Orphaned
  /\ AtBoundary
  /\ patch = current_patch
  /\ current_patch[1].file \notin DOMAIN files
  /\ Len(pass_log) = Len(patch[1].bass_pattern)
  /\ Len(pass_log) >= 2

\* an iteration of the for loop has run: it played its step or returned False
Iterated == pc = "pass" /\ (step_idx' = step_idx + 1 \/ pc' = "stopped")

\* the key is none of ESC, resize and the arrows, and no character whose
\* lower case is a slot key that has a patch; no key at all is such a key
Ignored(key) ==
  /\ key \notin { KEY_ESC, KEY_RESIZE, KEY_UP, KEY_DOWN }
  /\ ~(key \in Chars /\ Lower(key) \in DOMAIN patch_keys_map)

\* C33: an iteration that polls a key that is ignored, or no key, plays its
\* step as the patch and the tempo have it, and leaves the current patch and
\* slot key, the queued patch and slot key and the tempo unchanged; the
\* redraw flag stays as the redraw at the top of the iteration left it,
\* false.
C33_OtherInputIgnored ==
  [][ (Iterated /\ Ignored(PolledKey)) =>
        /\ StepPlayed
        /\ pass_log' = Append(pass_log, StepEvents(patch[1], step_idx, bpm))
        /\ UNCHANGED << current_patch, current_patch_key, next_patch,
                        next_patch_key, bpm, running >>
        /\ needs_full_redraw' = FALSE
    ]_vars

\* C33 witness: the one event so far was a key press, polled by the first
\* step of the pass, and it changed nothing: w, W or 1 in a store of one patch
C33_Witness ==
  /\ pc = "pass"
  /\ step_idx = 1
  /\ env_ops = 1
  /\ now = 1
  /\ scan_quiet
  /\ inputq = << >>
  /\ Cardinality(DOMAIN patches) = 1
  /\ next_patch = None
  /\ next_patch_key = None
  /\ bpm = initial_bpm
  /\ needs_full_redraw = FALSE

\* C34: the bpm changes only in an iteration that polls an arrow key: an
\* iteration that polls a resize or queues a patch, the swap at the loop
\* boundary and every step of a scan, with or without changes, leave it as
\* it is, and with it the step duration across a swap.
C34_TempoOnlyByArrows ==
  [][ /\ bpm' # bpm => Iterated /\ PolledKey \in { KEY_UP, KEY_DOWN }
      /\ (Iterated /\ (PolledKey = KEY_RESIZE \/ next_patch' # next_patch)) => bpm' = bpm
      /\ Swaps => get_step_duration_ms(bpm') = get_step_duration_ms(bpm)
      /\ (scan_pc' # scan_pc \/ patches' # patches) => bpm' = bpm
    ]_vars

\* C34 witness: the tempo was raised and slot w queued in one pass, and the
\* swap to the patch of slot w has left the raised tempo in place
C34_Witness ==
  /\ pc = "loop"
  /\ pass_requests # << >>
  /\ next_patch = None
  /\ current_patch_key = Some("w")
  /\ current_patch # pass_current
  /\ bpm = initial_bpm + tempo_step

\* the events of e after position i that are of kind k and for the channel
\* and pitch of e[i]
LaterOfVoice(e, i, k) ==
  { j \in (i + 1)..Len(e) : e[j][1] = k /\ SameVoice(e, i, j) }

\* C35: at every point where the engine can stop, and so when it has stopped
\* after ESC, each note-on sent since the pass started has a note-off for its
\* channel and pitch after it, one for each note-on of that channel and pitch
\* from it on; the passes before ended in the same way, so no voice of the
\* run is left sounding.
C35_NoVoiceLeftOn ==
  /\ pc = "stopped" <=> ~running
  /\ LET e == PassStream IN
       \A i \in 1..Len(e) :
         e[i][1] = "on" =>
           Cardinality(LaterOfVoice(e, i, "off")) >= Cardinality(LaterOfVoice(e, i, "on")) + 1

\* C35 witness: ESC has stopped the engine after the step that hits the kick
\* twice was played
C35_Witness ==
  /\ pc = "stopped"
  /\ ~running
  /\ Len(pass_log) = 1
  /\ Len(DrumEventsOf(pass_log[1])) = 6

\* C36: an iteration that polls a resize or queues a patch raises the redraw
\* flag, and so does a scan that returns True; an iteration that finds the
\* flag raised redraws before it plays, so that after it the flag is up only
\* if its own key raised it again; and after the redraw of the swap at the
\* loop boundary the flag is false.
C36_RedrawClearsFlag ==
  [][ /\ StepPlayed =>
           needs_full_redraw' = (PolledKey = KEY_RESIZE \/ next_patch' # next_patch
                                   \/ pass_requests' # pass_requests)
      /\ (pc = "loop_scan" /\ pc' = "pass" /\ scan_ret) => needs_full_redraw'
      /\ Swaps => ~needs_full_redraw'
    ]_vars

(***************************************************************************)
(* Properties of the store's watermark and slot map.                       *)
(***************************************************************************)
\* C37: a call of scan_patches that returns has set last_scan_time to the
\* time at which it finished, whatever it found: changes or none, files that
\* do not parse, an empty directory or no directory; so last_scan_time never
\* decreases, and once a scan has returned it is greater than 0.
C37_WatermarkAlwaysAdvances ==
  [][ /\ last_scan_time' >= last_scan_time
      /\ ScanReturns =>
           /\ last_scan_time' = now
           /\ last_scan_time' >= scan_called[1]
           /\ last_scan_time' > 0
    ]_vars

\* no call of scan_patches is under way: none was made yet, or the last one
\* returned or raised
NoScanUnderWay == scan_pc \in { "idle", "returned", "raised" }

\* C38: whenever no scan is under way, each slot key is mapped to a stored
\* id, no id has two slot keys, the mapped keys are the first keys of
\* PATCH_KEYS without a gap, and there are min(number of stored patches, 26)
\* of them.
C38_SlotMapConsistent ==
  NoScanUnderWay =>
    LET slots == DOMAIN patch_keys_map
        count == Cardinality(slots)
    IN  /\ \A k \in slots : patch_keys_map[k] \in DOMAIN patches
        /\ \A k1, k2 \in slots : patch_keys_map[k1] = patch_keys_map[k2] => k1 = k2
        /\ slots \subseteq PatchKeySet
        /\ \A k \in slots : \A i \in 1..KeyPos(k) : PATCH_KEYS[i] \in slots
        /\ count = Min(Cardinality(DOMAIN patches), Len(PATCH_KEYS))

(***************************************************************************)
(* Properties of the two queue fields.                                     *)
(***************************************************************************)
\* the pattern the store holds in the slot of the queued key, None if the
\* slot is empty
QueuedSlotPatch ==
  IF next_patch_key = None THEN None
  ELSE get_patch_by_key(patches, patch_keys_map, next_patch_key[1])

\* C39: next_patch and next_patch_key are empty together and set together;
\* both are empty whenever run() is not inside a pass, and when a pass starts;
\* inside a pass, when set, next_patch is the stored pattern of the slot
\* next_patch_key.
C39_QueueFieldsTogether ==
  /\ (next_patch = None) <=> (next_patch_key = None)
  /\ pc \notin { "pass", "stopped" } => next_patch = None
  /\ (pc = "pass" /\ step_idx = 0) => next_patch = None
  /\ (pc = "pass" /\ next_patch # None) =>
       /\ next_patch_key[1] \in PatchKeySet
       /\ QueuedSlotPatch = next_patch

\* C39 witness: two requests were made in one pass, for slot w and then for
\* slot q, and the queue holds the later one
C39_Witness ==
  /\ pc = "pass"
  /\ Len(pass_requests) = 2
  /\ pass_requests[1][1] = "w"
  /\ pass_requests[2][1] = "q"
  /\ next_patch_key = Some("q")
  /\ next_patch # None
  /\ QueuedSlotPatch = next_patch

====
